---- MODULE Spec2Model ----
(***************************************************************************)
(* Model of the Memory Pressure Driver of                                  *)
(* src/src/app-toolkit/memory-test-app/app.py: the run flag                *)
(* memory_test_running, the ledger allocated_memory, the three threshold   *)
(* flags, the request handlers that start and stop a test, and the         *)
(* background loop consume_memory_gradually.                               *)
(*                                                                         *)
(* Percentages are integers in thousandths of a percent (60% = 60000), so  *)
(* that round(x, 2) of the source is a real conversion: Round2.            *)
(***************************************************************************)
EXTENDS Integers, Sequences, FiniteSets, TLC

VARIABLES
    memory_test_running,     \* app.py:57
    allocated_memory,        \* app.py:58, the number of blocks in the ledger
    memory_warning_60_sent,  \* app.py:61
    memory_warning_80_sent,  \* app.py:62
    memory_warning_90_sent,  \* app.py:63
    handler,                 \* the request handlers in flight, one record per server thread
    loops,                   \* the threads running consume_memory_gradually
    notifier,                \* what the last threshold evaluation read and emitted
    hist,                    \* history of the run: what stop() and start() did last
    limit_source,            \* what the two cgroup files and CE_MEMORY hold
    resolved,                \* the last call of get_container_memory_limit
    telemetry                \* the send_log call in flight, with the sink's configuration

envVars == <<limit_source, resolved, telemetry>>

vars == <<memory_test_running, allocated_memory, memory_warning_60_sent,
          memory_warning_80_sent, memory_warning_90_sent, handler, loops,
          notifier, hist, envVars>>

flagVars == <<memory_warning_60_sent, memory_warning_80_sent, memory_warning_90_sent>>

-----------------------------------------------------------------------------
(* Bounds of the model.                                                    *)

\* Readings one behaviour of the threshold notifier evaluates.
MaxReadings == 6
\* Server threads handling requests at the same time.
MaxHandlers == 2
\* Threads running the allocation loop at the same time.
MaxLoops == 2
\* Iterations one run of the loop begins.
MaxIter == 2
\* Blocks the process can hold: the allocation after that raises MemoryError.
MaxLedger == 2
\* Iterations a run of the loop begins when the loop is followed tick by
\* tick; the process then holds one block less.
MaxRunIter == 6
\* Blocks the process can hold when its resident memory is that of the
\* ledger: at 2% of the limit a block, 50 blocks are the limit.
MaxGrowth == 50

-----------------------------------------------------------------------------
(* Percentages.                                                            *)

\* round(x, 2) on a percentage held in thousandths.
Round2(x) == ((x + 5) \div 10) * 10

\* The raw container_memory_percent values a threshold evaluation is fed:
\* each line of the source (55, 60, 75, 80, 85, 90), the value just below
\* it, one that rounds up to it, and the readings of the worked example.
ThresholdReadings ==
    { 0, 50000, 52000, 54990, 54996, 55000, 59990, 59996, 60000, 61000,
      70000, 74990, 74996, 75000, 79990, 79996, 80000, 82000, 84990, 84996,
      85000, 89990, 89996, 90000, 91000, 100000, 120000 }

\* The raw percentages the running loop reads from the process statistics:
\* all the bands of the pause blocks, or a process that stays below them.
LoopReadings == { 50000, 59996, 70000, 85000 }
HighReadings == { 85000 }

\* The percentages the statistics after an allocation give: each band of
\* the progress log and of the sleep (80, 90, 95), the lines themselves
\* and, below them, a value that round(x, 2) would take to 80.
AfterReadings == { 79996, 80000, 85000, 90000, 92000, 95000, 97000 }

-----------------------------------------------------------------------------
(* The threshold notifier: check_memory_thresholds.                        *)

Flags == [w60 |-> memory_warning_60_sent,
          w80 |-> memory_warning_80_sent,
          w90 |-> memory_warning_90_sent]

NoFlags == [w60 |-> FALSE, w80 |-> FALSE, w90 |-> FALSE]

Warn60(f, p) == p >= 60000 /\ ~f.w60
\* The 80 block without its test of the flag.
Warn80IgnoringFlag(f, p) == p >= 80000
Warn80(f, p) == p >= 80000 /\ ~f.w80
Warn90(f, p) == p >= 90000 /\ ~f.w90

\* The flags after the three threshold blocks, before the reset block.
AfterWarnings(f, p) ==
    [w60 |-> f.w60 \/ Warn60(f, p),
     w80 |-> f.w80 \/ Warn80(f, p),
     w90 |-> f.w90 \/ Warn90(f, p)]

\* The send_log calls of the three threshold blocks, in the order made.
ThresholdEvents(f, p) ==
    (IF Warn60(f, p) THEN << [threshold |-> 60, severity |-> 3] >> ELSE << >>)
    \o (IF Warn80(f, p) THEN << [threshold |-> 80, severity |-> 4] >> ELSE << >>)
    \o (IF Warn90(f, p) THEN << [threshold |-> 90, severity |-> 5] >> ELSE << >>)

\* The reset block with the floor of the 60 flag taken for that of the 80 flag.
ResetWarningsBelow75(g, p) ==
    IF p < 75000 THEN NoFlags
    ELSE IF p < 85000 THEN [g EXCEPT !.w90 = FALSE]
    ELSE g

\* The reset block resetting in each band the flag of that band only.
ResetWarningsOwnBand(g, p) ==
    IF p < 55000 THEN [g EXCEPT !.w60 = FALSE]
    ELSE IF p < 75000 THEN [g EXCEPT !.w80 = FALSE]
    ELSE IF p < 85000 THEN [g EXCEPT !.w90 = FALSE]
    ELSE g

ResetWarnings(g, p) ==
    IF p < 55000 THEN NoFlags
    ELSE IF p < 75000 THEN [g EXCEPT !.w80 = FALSE, !.w90 = FALSE]
    ELSE IF p < 85000 THEN [g EXCEPT !.w90 = FALSE]
    ELSE g

check_memory_thresholds(f, p) ==
    [flags  |-> ResetWarnings(AfterWarnings(f, p), p),
     events |-> ThresholdEvents(f, p)]

SetFlags(f) ==
    /\ memory_warning_60_sent' = f.w60
    /\ memory_warning_80_sent' = f.w80
    /\ memory_warning_90_sent' = f.w90

-----------------------------------------------------------------------------
(* The container limit: get_container_memory_limit.  Limits are in MB.     *)

\* return 1024.0
DefaultLimitMb == 1024

\* What a limit source can hold.  A number is the limit it states, in MB.
Absent == [kind |-> "absent", mb |-> 0]
\* The file exists and open() or read() raises.
Unreadable == [kind |-> "unreadable", mb |-> 0]
\* Text that int() (for CE_MEMORY, float()) does not parse.
Garbage == [kind |-> "garbage", mb |-> 0]
\* 'max' in memory.max; 9223372036854771712 or more in memory.limit_in_bytes.
Unlimited == [kind |-> "unlimited", mb |-> 0]
Number(n) == [kind |-> "number", mb |-> n]

V2Contents == { Absent, Unreadable, Garbage, Unlimited, Number(512), Number(1000) }
V1Contents == { Absent, Unreadable, Garbage, Unlimited, Number(512), Number(1000) }
\* CE_MEMORY is whatever the environment of the process gives: also 0.
EnvContents == { Absent, Garbage, Number(0), Number(512), Number(2048) }

LimitSources == [v2 : V2Contents, v1 : V1Contents, env : EnvContents]

NoSources == [v2 |-> Absent, v1 |-> Absent, env |-> Absent]

\* How the lines that read one source end: a return, an exception, or
\* control reaching the next source.
Returns(n, from) == [out |-> "return", mb |-> n, from |-> from]
Raises == [out |-> "raise", mb |-> 0, from |-> "none"]
FallsThrough == [out |-> "next", mb |-> 0, from |-> "none"]

\* if os.path.exists(cgroup_v2_path): ... if limit != 'max': return int(limit) / (1024 * 1024)
ReadCgroupV2(c) ==
    CASE c.kind = "absent"     -> FallsThrough
      [] c.kind = "unreadable" -> Raises
      [] c.kind = "unlimited"  -> FallsThrough
      [] c.kind = "garbage"    -> Raises
      [] c.kind = "number"     -> Returns(c.mb, "v2")

\* if os.path.exists(cgroup_v1_path): limit = int(...); if limit < 9223372036854771712: return ...
ReadCgroupV1(c) ==
    CASE c.kind = "absent"     -> FallsThrough
      [] c.kind = "unreadable" -> Raises
      [] c.kind = "garbage"    -> Raises
      [] c.kind = "unlimited"  -> FallsThrough
      [] c.kind = "number"     -> Returns(c.mb, "v1")

\* if 'CE_MEMORY' in os.environ: return float(os.environ['CE_MEMORY'])
ReadEnv(c) ==
    CASE c.kind = "absent"  -> FallsThrough
      [] c.kind = "garbage" -> Raises
      [] c.kind = "number"  -> Returns(c.mb, "env")

\* The body of the try block: the three sources one after the other.
TryLimitSources(src) ==
    LET a == ReadCgroupV2(src.v2)
        b == ReadCgroupV1(src.v1)
    IN  IF a.out # "next" THEN a
        ELSE IF b.out # "next" THEN b
        ELSE ReadEnv(src.env)

\* The function without its except clause: the exception leaves it.
ExceptNothing(r) ==
    IF r.out = "return" THEN [mb |-> r.mb, from |-> r.from, raised |-> FALSE]
    ELSE IF r.out = "raise" THEN [mb |-> 0, from |-> "none", raised |-> TRUE]
    ELSE [mb |-> DefaultLimitMb, from |-> "default", raised |-> FALSE]

\* except Exception: logger.warning(...), and then, as after the last
\* source, return 1024.0
ExceptException(r) ==
    IF r.out = "return" THEN [mb |-> r.mb, from |-> r.from, raised |-> FALSE]
    ELSE [mb |-> DefaultLimitMb, from |-> "default", raised |-> FALSE]

get_container_memory_limit(src) == ExceptException(TryLimitSources(src))

\* A chunk of 1% of the limit.
ChunkSizeOnePercent(limit_mb) == (limit_mb * 1048576) \div 100

\* chunk_size = int((container_limit_mb * 0.02) * 1024 * 1024)
ChunkSize(limit_mb) == (limit_mb * 1048576) \div 50

\* round(mem_info.rss / 1024 / 1024, 2), in hundredths of a MB:
\* bytes * 100 / 1048576 rounded to the nearest integer.
MbHundredths(bytes) ==
    (bytes \div 262144) * 25 + (((bytes % 262144) * 25 + 131072) \div 262144)

\* (process_rss_mb / container_limit_mb) * 100, in thousandths of a percent.
UsedPct(rss_bytes, limit_mb) == (MbHundredths(rss_bytes) * 1000) \div limit_mb

NotResolved == [calls |-> 0, result |-> [mb |-> 0, from |-> "none", raised |-> FALSE]]

\* One call of get_container_memory_limit.
Resolve ==
    /\ resolved.calls = 0
    /\ resolved' = [calls |-> 1, result |-> get_container_memory_limit(limit_source)]
    /\ UNCHANGED <<memory_test_running, allocated_memory, flagVars, handler, loops,
                   notifier, hist, limit_source, telemetry>>

-----------------------------------------------------------------------------
(* Telemetry: send_log and get_iam_token.                                  *)

Severities == { 1, 3, 4, 5, 6 }

\* The level of the local log line: logger.error, logger.warning, logger.info.
LocalLevel(severity) ==
    IF severity >= 5 THEN "error" ELSE IF severity = 4 THEN "warning" ELSE "info"

\* The request to the IAM service: 200 with or without an access_token in
\* its body, another status, or an exception of requests.
IamOutcomes == { "200", "200_no_token", "400", "exception" }
\* The ibmcloud command: return code 0 with or without an iam_token in its
\* output, another return code, or an exception (no such command, timeout,
\* output that is not JSON).
CliOutcomes == { "0", "0_no_token", "1", "exception" }
\* The request to the sink: its status code, or an exception of requests.
PostOutcomes == { "200", "201", "204", "401", "500", "exception" }

\* get_iam_token: the token it returns, "none" for None and "empty" for ''.
get_iam_token(cfg, iam, cli) ==
    IF cfg.cached THEN "token"
    ELSE IF cfg.api_key /\ iam = "200" THEN "token"
    ELSE IF cfg.api_key /\ iam = "200_no_token" THEN "none"
    ELSE IF cli = "0" THEN "token"
    ELSE IF cli = "0_no_token" THEN "empty"
    ELSE "none"

\* The request to the sink without its except clause.
PostUncaught(o) ==
    IF o = "exception" THEN "raise"
    ELSE IF o \in { "200", "201", "204" } THEN "True" ELSE "False"

\* success = response.status_code in [200, 201, 204]; return success
\* except Exception: return False
PostResult(o) ==
    IF o = "exception" THEN "False"
    ELSE IF o \in { "200", "201", "204" } THEN "True" ELSE "False"

SinkConfigs == [endpoint : BOOLEAN, api_key : BOOLEAN, cached : BOOLEAN]

NoCall == [pc |-> "idle", severity |-> 0, logged |-> "none", token |-> "none",
           post |-> "none", returned |-> "none"]

\* send_log and get_iam_token assign none of the driver's globals.
TelemetryOnly ==
    UNCHANGED <<memory_test_running, allocated_memory, flagVars, handler, loops,
                notifier, hist, limit_source, resolved>>

\* send_log up to sys.stdout.flush(): the local log line.
SendLocal(severity) ==
    /\ telemetry.call.pc = "idle"
    /\ telemetry' = [telemetry EXCEPT !.call =
                       [NoCall EXCEPT !.pc = "configured", !.severity = severity,
                                      !.logged = LocalLevel(severity)]]
    /\ TelemetryOnly

\* if not CLOUD_LOGS_ENDPOINT: return False
SendConfigured ==
    /\ telemetry.call.pc = "configured"
    /\ telemetry' = [telemetry EXCEPT !.call =
                       IF telemetry.cfg.endpoint
                       THEN [@ EXCEPT !.pc = "token"]
                       ELSE [@ EXCEPT !.pc = "idle", !.returned = "False"]]
    /\ TelemetryOnly

\* token = get_iam_token(); if not token: return False
SendToken(iam, cli) ==
    /\ telemetry.call.pc = "token"
    /\ LET token == get_iam_token(telemetry.cfg, iam, cli)
       IN  telemetry' =
             [cfg  |-> [telemetry.cfg EXCEPT !.cached = (token = "token")],
              call |-> IF token = "token"
                       THEN [telemetry.call EXCEPT !.pc = "post", !.token = token]
                       ELSE [telemetry.call EXCEPT !.pc = "idle", !.token = token,
                                                   !.returned = "False"]]
    /\ TelemetryOnly

\* requests.post(CLOUD_LOGS_ENDPOINT, ...) and the return
SendPost(o) ==
    /\ telemetry.call.pc = "post"
    /\ telemetry' = [telemetry EXCEPT !.call =
                       [@ EXCEPT !.pc = "idle", !.post = o, !.returned = PostResult(o)]]
    /\ TelemetryOnly

\* The token cached by an earlier call passes iam_token_expiry.
TokenExpires ==
    /\ telemetry.cfg.cached
    /\ telemetry' = [telemetry EXCEPT !.cfg.cached = FALSE]
    /\ TelemetryOnly

send_log ==
    \/ \E severity \in Severities : SendLocal(severity)
    \/ SendConfigured
    \/ \E iam \in IamOutcomes, cli \in CliOutcomes : SendToken(iam, cli)
    \/ \E o \in PostOutcomes : SendPost(o)

-----------------------------------------------------------------------------
(* Initial state: the module-level globals of app.py.                      *)

Handlers == 1 .. MaxHandlers
LoopIds == 1 .. MaxLoops

\* What an except block of the loop reported: nothing yet.
NoNote == [via |-> "none", severity |-> 0, chunks_before_oom |-> 0]

\* A server thread: the request it took last, where it is in the handler,
\* the status of the response it sent, the chunks_freed local of
\* stop_memory_test, the levels whose crossing event the request emitted,
\* how the huge allocation the request asked for ended and what
\* allocate_huge_memory reported of it, and the container_memory_percent
\* local of the check_memory_thresholds call the request is in.
IdleHandler == [op |-> "none", pc |-> "idle", status |-> 0, chunks_freed |-> 0,
                emitted |-> {}, crash |-> "none", note |-> NoNote, pct |-> 0]

Received(op) == [IdleHandler EXCEPT !.op = op]

\* A loop thread: its locals (pct is container_memory_percent of the tick,
\* pct_after that after the allocation, wait_time in tenths of a second),
\* the progress log of its last allocation (its severity, 0 for none), the fault that ended it, the call
\* that raised it and what the except block reported, and four facts about its run: how many of
\* its ticks read 60% or more, whether a tick read below 55% (below 75%)
\* since it paused at 60 (at 80), and whether a stop() cleared the flag
\* under it.
NoLoop == [pc |-> "none", chunk_size |-> 0, iteration |-> 0, last_log_iteration |-> 0,
           paused_at_60 |-> FALSE, paused_at_80 |-> FALSE, pct |-> 0,
           pct_after |-> 0, progress |-> 0, wait_time |-> 0,
           fault |-> "none", raised_at |-> "none", note |-> NoNote,
           ticks60 |-> 0, below55 |-> FALSE, below75 |-> FALSE, stopped |-> FALSE]

\* The worked example of the threshold sweep, and the levels it must emit.
Example == << 50000, 61000, 82000, 91000, 70000, 52000 >>

InitNotifier == [reading |-> 0, prev |-> NoFlags, events |-> << >>, nread |-> 0,
                 armed |-> [L \in {60, 80, 90} |-> TRUE], onExample |-> TRUE]

\* bytes is the size of the ledger in bytes.
InitHist == [stopCleared |-> FALSE, spawnsSinceSet |-> 0, bytes |-> 0]

\* No limit source, no sink configured, no call made yet.
NoSink == [cfg  |-> [endpoint |-> FALSE, api_key |-> FALSE, cached |-> FALSE],
           call |-> NoCall]

InitEnv ==
    /\ limit_source = NoSources
    /\ resolved = NotResolved
    /\ telemetry = NoSink

\* The globals of the driver.
InitGlobals ==
    /\ memory_test_running = FALSE
    /\ allocated_memory = 0
    /\ memory_warning_60_sent = FALSE
    /\ memory_warning_80_sent = FALSE
    /\ memory_warning_90_sent = FALSE
    /\ handler = [h \in Handlers |-> IdleHandler]
    /\ loops = [l \in LoopIds |-> NoLoop]
    /\ notifier = InitNotifier
    /\ hist = InitHist

Init == InitGlobals /\ InitEnv

-----------------------------------------------------------------------------
(* The notifier on its own: one evaluation after another.                  *)

Floor(L) == CASE L = 60 -> 55000 [] L = 80 -> 75000 [] L = 90 -> 85000

Emits(events, L) == \E i \in 1 .. Len(events) : events[i].threshold = L

Levels(events) == { events[i].threshold : i \in 1 .. Len(events) }

Evaluate(p) ==
    /\ notifier.nread < MaxReadings
    /\ LET r == check_memory_thresholds(Flags, p)
           n == notifier.nread + 1
       IN  /\ SetFlags(r.flags)
           /\ notifier' =
                [reading |-> p, prev |-> Flags, events |-> r.events, nread |-> n,
                 armed |-> [L \in {60, 80, 90} |->
                              IF Emits(r.events, L) THEN FALSE
                              ELSE IF p < Floor(L) THEN TRUE
                              ELSE notifier.armed[L]],
                 onExample |-> /\ notifier.onExample
                               /\ n <= Len(Example)
                               /\ Example[n] = p]
    /\ UNCHANGED <<memory_test_running, allocated_memory, handler, loops, hist, envVars>>

NextThresholds == \E p \in ThresholdReadings : Evaluate(p)

SpecThresholds == Init /\ [][NextThresholds]_vars

\* check_memory_thresholds is also called by the handlers of / and
\* /memory-stats, on server threads of their own: its statements interleave
\* with those of the loop's call, which can leave the three flags in any of
\* the eight combinations.  An evaluation may start from each of them.
InitAnyFlags ==
    /\ memory_test_running = FALSE
    /\ allocated_memory = 0
    /\ memory_warning_60_sent \in BOOLEAN
    /\ memory_warning_80_sent \in BOOLEAN
    /\ memory_warning_90_sent \in BOOLEAN
    /\ handler = [h \in Handlers |-> IdleHandler]
    /\ loops = [l \in LoopIds |-> NoLoop]
    /\ notifier = [InitNotifier EXCEPT
                     !.prev = Flags,
                     !.armed = [L \in {60, 80, 90} |->
                                  CASE L = 60 -> ~memory_warning_60_sent
                                    [] L = 80 -> ~memory_warning_80_sent
                                    [] L = 90 -> ~memory_warning_90_sent],
                     !.onExample = (Flags = NoFlags)]
    /\ hist = InitHist
    /\ InitEnv

SpecAnyFlags == InitAnyFlags /\ [][NextThresholds]_vars

-----------------------------------------------------------------------------
(* The resolver on its own: one call in each state of the limit sources.   *)

InitResolve ==
    /\ InitGlobals
    /\ limit_source \in LimitSources
    /\ resolved = NotResolved
    /\ telemetry = NoSink

NextResolve == Resolve

SpecResolve == InitResolve /\ [][NextResolve]_vars

-----------------------------------------------------------------------------
(* Telemetry on its own: one send_log call after another, under each       *)
(* configuration of the sink.                                              *)

InitSendLog ==
    /\ InitGlobals
    /\ limit_source = NoSources
    /\ resolved = NotResolved
    /\ telemetry \in [cfg : SinkConfigs, call : {NoCall}]

NextSendLog ==
    \/ send_log
    \/ TokenExpires

SpecSendLog == InitSendLog /\ [][NextSendLog]_vars


-----------------------------------------------------------------------------
(* The control surface: /start-memory-test, /crash and /stop-memory-test.  *)
(* A handler runs on a server thread of its own, so its reads and writes   *)
(* of the globals are separate steps that other threads interleave with.   *)

StartOps == {"start", "crash_gradual"}

\* A loop thread that has been started and has not reached its last line.
Live(l) == loops[l].pc # "none"

\* A loop thread that will go on to append: inside the while body, or at
\* the while test with the flag set.
Appending(l) ==
    \/ loops[l].pc \in {"check", "sleep60", "sleep80", "alloc"}
    \/ loops[l].pc = "while" /\ memory_test_running

\* A request is taken by the first idle server thread.  With serial set,
\* the client sends a request only after the previous response.
Accepts(h, serial) ==
    /\ handler[h].pc = "idle"
    /\ \A g \in Handlers : g < h => handler[g].pc # "idle"
    /\ serial => \A g \in Handlers : handler[g].pc = "idle"

\* A start that never refuses.
AlreadyRunningNever == FALSE

\* if memory_test_running: return 400
AlreadyRunning == memory_test_running

\* /start-memory-test, or /crash with type gradual, up to the test of the flag.
StartCheck(h, op, serial) ==
    /\ Accepts(h, serial)
    /\ op \in StartOps
    /\ handler' = [handler EXCEPT ![h] =
                     IF AlreadyRunning
                     THEN [Received(op) EXCEPT !.status = 400]
                     ELSE [Received(op) EXCEPT !.pc = "s_set"]]
    /\ UNCHANGED <<memory_test_running, allocated_memory, flagVars, loops, notifier, hist, envVars>>

\* A start that empties the ledger when it sets the flag.
StartSetClearing(h) ==
    /\ handler[h].pc = "s_set"
    /\ memory_test_running' = TRUE
    /\ allocated_memory' = 0
    /\ hist' = [hist EXCEPT
                   !.stopCleared = FALSE,
                   !.spawnsSinceSet = IF memory_test_running THEN @ ELSE 0,
                   !.bytes = 0]
    /\ handler' = [handler EXCEPT ![h].pc = "s_spawn"]
    /\ UNCHANGED <<flagVars, loops, notifier, envVars>>

\* memory_test_running = True
StartSet(h) ==
    /\ handler[h].pc = "s_set"
    /\ memory_test_running' = TRUE
    /\ hist' = [hist EXCEPT
                   !.stopCleared = FALSE,
                   !.spawnsSinceSet = IF memory_test_running THEN @ ELSE 0]
    /\ handler' = [handler EXCEPT ![h].pc = "s_spawn"]
    /\ UNCHANGED <<allocated_memory, flagVars, loops, notifier, envVars>>

\* threading.Thread(target=consume_memory_gradually).start(); return 200
StartSpawn(h) ==
    /\ handler[h].pc = "s_spawn"
    /\ \E l \in LoopIds :
          /\ ~Live(l)
          /\ \A k \in LoopIds : k < l => Live(k)
          /\ loops' = [loops EXCEPT ![l] =
                         [NoLoop EXCEPT
                            !.pc = "while",
                            !.chunk_size =
                               ChunkSize(get_container_memory_limit(limit_source).mb)]]
    /\ hist' = [hist EXCEPT !.spawnsSinceSet = @ + 1]
    /\ handler' = [handler EXCEPT ![h] = [@ EXCEPT !.pc = "idle", !.status = 200]]
    /\ UNCHANGED <<memory_test_running, allocated_memory, flagVars, notifier, envVars>>

\* threading.Thread(...).start(); return 200, and the first statements of the
\* thread, before its try: get_container_memory_limit(), get_memory_stats(),
\* the iterations to 60 and 80 and send_log("Starting ...").  One of them
\* raises: the exception ends the thread, which reaches neither the while
\* nor the completion log and leaves memory_test_running as start() set it.
StartSpawnDies(h) ==
    /\ handler[h].pc = "s_spawn"
    /\ hist' = [hist EXCEPT !.spawnsSinceSet = @ + 1]
    /\ handler' = [handler EXCEPT ![h] = [@ EXCEPT !.pc = "idle", !.status = 200]]
    /\ UNCHANGED <<memory_test_running, allocated_memory, flagVars, loops, notifier, envVars>>

\* A stop that never refuses.
NotRunningNever == FALSE

\* if not memory_test_running: return 400
NotRunning == ~memory_test_running

\* /stop-memory-test up to the test of the flag.
StopCheck(h, serial) ==
    /\ Accepts(h, serial)
    /\ handler' = [handler EXCEPT ![h] =
                     IF NotRunning
                     THEN [Received("stop") EXCEPT !.status = 400]
                     ELSE [Received("stop") EXCEPT !.pc = "t_set"]]
    /\ UNCHANGED <<memory_test_running, allocated_memory, flagVars, loops, notifier, hist, envVars>>

\* memory_test_running = False
StopSet(h) ==
    /\ handler[h].pc = "t_set"
    /\ memory_test_running' = FALSE
    /\ loops' = [l \in LoopIds |->
                   IF Live(l) /\ loops[l].pc # "final"
                   THEN [loops[l] EXCEPT !.stopped = TRUE] ELSE loops[l]]
    /\ handler' = [handler EXCEPT ![h].pc = "t_len"]
    /\ UNCHANGED <<allocated_memory, flagVars, notifier, hist, envVars>>

\* chunks_freed = len(allocated_memory)
StopLen(h) ==
    /\ handler[h].pc = "t_len"
    /\ handler' = [handler EXCEPT ![h] = [@ EXCEPT !.pc = "t_clear",
                                                   !.chunks_freed = allocated_memory]]
    /\ UNCHANGED <<memory_test_running, allocated_memory, flagVars, loops, notifier, hist, envVars>>

\* allocated_memory.clear(); return 200 with chunks_freed
StopClear(h) ==
    /\ handler[h].pc = "t_clear"
    /\ allocated_memory' = 0
    /\ hist' = [hist EXCEPT !.stopCleared = TRUE, !.bytes = 0]
    /\ handler' = [handler EXCEPT ![h] = [@ EXCEPT !.pc = "idle", !.status = 200,
                                                   !.chunks_freed = 0]]
    /\ UNCHANGED <<memory_test_running, flagVars, loops, notifier, envVars>>

-----------------------------------------------------------------------------
(* The status requests / and /memory-stats, and the immediate crash:       *)
(* /crash with a type other than gradual, and /trigger-oom.                *)

StatusOps == {"home", "memory_stats"}
CrashOps == {"crash_oom", "trigger_oom"}

\* stats = check_memory_thresholds(); return jsonify(...) with the stats.
\* p is the raw percentage the request reads.
Status(h, op, serial, p) ==
    /\ Accepts(h, serial)
    /\ op \in StatusOps
    /\ LET r == check_memory_thresholds(Flags, p)
       IN  /\ SetFlags(r.flags)
           /\ handler' = [handler EXCEPT ![h] =
                            [Received(op) EXCEPT !.status = 200,
                                                 !.emitted = Levels(r.events)]]
    /\ UNCHANGED <<memory_test_running, allocated_memory, loops, notifier, hist, envVars>>

\* The same request statement by statement, on a server thread beside the
\* other threads: check_memory_thresholds holds no lock, so the test of a
\* flag, the assignment that sets it and the reset block are steps of
\* their own.
Thresholds == {60, 80, 90}

IfPc(L) == CASE L = 60 -> "if60" [] L = 80 -> "if80" [] L = 90 -> "if90"
SetPc(L) == CASE L = 60 -> "set60" [] L = 80 -> "set80" [] L = 90 -> "set90"
AfterPc(L) == CASE L = 60 -> "if80" [] L = 80 -> "if90" [] L = 90 -> "reset"

Sent(L) == CASE L = 60 -> memory_warning_60_sent
             [] L = 80 -> memory_warning_80_sent
             [] L = 90 -> memory_warning_90_sent

\* stats = get_memory_stats(); container_memory_percent = ...
StatusRead(h, op, p) ==
    /\ Accepts(h, FALSE)
    /\ op \in StatusOps
    /\ handler' = [handler EXCEPT ![h] = [Received(op) EXCEPT !.pc = "if60", !.pct = p]]
    /\ UNCHANGED <<memory_test_running, allocated_memory, flagVars, loops, notifier, hist, envVars>>

\* if container_memory_percent >= L and not memory_warning_L_sent
StatusIf(h, L) ==
    /\ handler[h].pc = IfPc(L)
    /\ handler' = [handler EXCEPT ![h].pc =
                     IF handler[h].pct >= L * 1000 /\ ~Sent(L) THEN SetPc(L) ELSE AfterPc(L)]
    /\ UNCHANGED <<memory_test_running, allocated_memory, flagVars, loops, notifier, hist, envVars>>

\* memory_warning_L_sent = True; send_log(...)
StatusSet(h, L) ==
    /\ handler[h].pc = SetPc(L)
    /\ SetFlags([w60 |-> L = 60 \/ memory_warning_60_sent,
                 w80 |-> L = 80 \/ memory_warning_80_sent,
                 w90 |-> L = 90 \/ memory_warning_90_sent])
    /\ handler' = [handler EXCEPT ![h] = [@ EXCEPT !.pc = AfterPc(L),
                                                   !.emitted = @ \cup {L}]]
    /\ UNCHANGED <<memory_test_running, allocated_memory, loops, notifier, hist, envVars>>

\* The reset block, and the response.
StatusReset(h) ==
    /\ handler[h].pc = "reset"
    /\ SetFlags(ResetWarnings(Flags, handler[h].pct))
    /\ handler' = [handler EXCEPT ![h] = [@ EXCEPT !.pc = "idle", !.status = 200,
                                                   !.pct = 0]]
    /\ UNCHANGED <<memory_test_running, allocated_memory, loops, notifier, hist, envVars>>

StatusStep(h) ==
    \/ \E L \in Thresholds : StatusIf(h, L) \/ StatusSet(h, L)
    \/ StatusReset(h)

\* get_memory_stats() of the request raises: the response is a 500.
StatusFault(h, op, serial) ==
    /\ Accepts(h, serial)
    /\ op \in StatusOps
    /\ handler' = [handler EXCEPT ![h] = [Received(op) EXCEPT !.status = 500]]
    /\ UNCHANGED <<memory_test_running, allocated_memory, flagVars, loops, notifier, hist, envVars>>

\* How bytearray(10 * 1024 * 1024 * 1024) of allocate_huge_memory ends: in one
\* of the three exceptions its except blocks catch, or with the block.
CrashOutcomes == { "MemoryError", "OSError", "Exception", "allocated" }

\* severity=4 after the allocation, severity=6 in except MemoryError and
\* except OSError, severity=5 in except Exception
CrashSeverity(outcome) ==
    CASE outcome = "allocated" -> 4
      [] outcome = "Exception" -> 5
      [] OTHER -> 6

\* What allocate_huge_memory reports: the send_log after the allocation, or
\* that of the except block, or, when get_memory_stats() or send_log(...) of
\* the except block raises (stats_ok is false), the print of its inner except.
CrashNote(outcome, stats_ok) ==
    IF outcome = "allocated" \/ stats_ok
    THEN [via |-> "send_log", severity |-> CrashSeverity(outcome), chunks_before_oom |-> 0]
    ELSE [via |-> "print", severity |-> 0, chunks_before_oom |-> 0]

\* An immediate crash that is refused while a test is running, as the
\* gradual one is.
CrashWhenIdle(h, op, serial, outcome, stats_ok) ==
    /\ Accepts(h, serial)
    /\ op \in CrashOps
    /\ handler' = [handler EXCEPT ![h] =
                     IF memory_test_running
                     THEN [Received(op) EXCEPT !.status = 400]
                     ELSE [Received(op) EXCEPT !.status = 200, !.crash = outcome,
                                               !.note = CrashNote(outcome, stats_ok)]]
    /\ UNCHANGED <<memory_test_running, allocated_memory, flagVars, loops, notifier, hist, envVars>>

\* The request starts a thread that runs allocate_huge_memory and answers
\* 200.  The thread reads and assigns its locals only: huge is one of them.
\* outcome is how bytearray(10 * 1024 * 1024 * 1024) ends.
Crash(h, op, serial, outcome, stats_ok) ==
    /\ Accepts(h, serial)
    /\ op \in CrashOps
    /\ handler' = [handler EXCEPT ![h] =
                     [Received(op) EXCEPT !.status = 200, !.crash = outcome,
                                          !.note = CrashNote(outcome, stats_ok)]]
    /\ UNCHANGED <<memory_test_running, allocated_memory, flagVars, loops, notifier, hist, envVars>>

-----------------------------------------------------------------------------
(* The allocation loop: consume_memory_gradually.                          *)

\* The 60 block without its latch.
PauseAt60Always(lp, p) == p >= 60000

\* The 60 block entered only by the tick that sets the 60 flag.
PauseAt60WithEvent(lp, p) ==
    p >= 60000 /\ ~lp.paused_at_60 /\ ~memory_warning_60_sent

\* if container_memory_percent >= 60 and not paused_at_60
PauseAt60(lp, p) == p >= 60000 /\ ~lp.paused_at_60

\* if container_memory_percent >= 80 and not paused_at_80
PauseAt80(lp, p) == p >= 80000 /\ ~lp.paused_at_80

\* After the 60 block: the 80 block pauses or the loop goes on to allocate.
After60(lp) ==
    IF PauseAt80(lp, lp.pct)
    THEN [lp EXCEPT !.paused_at_80 = TRUE, !.pc = "sleep80", !.below75 = FALSE]
    ELSE [lp EXCEPT !.pc = "alloc"]

\* The loop after the while: of its locals the completion log reads
\* iteration and chunk_size only.
Ended(lp) ==
    [NoLoop EXCEPT !.pc = "final", !.iteration = lp.iteration,
                   !.chunk_size = lp.chunk_size]

\* while memory_test_running: iteration += 1
LoopWhile(l, iters) ==
    /\ loops[l].pc = "while"
    /\ memory_test_running => loops[l].iteration < iters
    /\ loops' = [loops EXCEPT ![l] =
                   IF memory_test_running
                   THEN [@ EXCEPT !.pc = "check", !.iteration = @ + 1,
                                  !.pct_after = 0, !.progress = 0, !.wait_time = 0]
                   ELSE Ended(@)]
    /\ UNCHANGED <<memory_test_running, allocated_memory, flagVars, handler, notifier, hist, envVars>>

\* stats = check_memory_thresholds(), then the two pause blocks up to the
\* first time.sleep(10), if any.  p is the raw percentage of this tick.
LoopCheck(l, p) ==
    /\ loops[l].pc = "check"
    /\ SetFlags(check_memory_thresholds(Flags, p).flags)
    /\ LET rp == Round2(p)
           lp == [loops[l] EXCEPT
                    !.pct = rp,
                    !.ticks60 = IF rp >= 60000 THEN @ + 1 ELSE @,
                    !.below55 = @ \/ (rp < 55000 /\ loops[l].paused_at_60),
                    !.below75 = @ \/ (rp < 75000 /\ loops[l].paused_at_80)]
       IN  loops' = [loops EXCEPT ![l] =
                       IF PauseAt60(loops[l], rp)
                       THEN [lp EXCEPT !.paused_at_60 = TRUE, !.pc = "sleep60",
                                       !.below55 = FALSE]
                       ELSE After60(lp)]
    /\ UNCHANGED <<memory_test_running, allocated_memory, handler, notifier, hist, envVars>>

\* The exceptions an except block of the loop catches.
FaultKinds == { "MemoryError", "OSError", "Exception" }

\* A fault and whether the except block that catches it can log it:
\* get_memory_stats() and send_log(...) in the block return, or one raises.
Faults == [kind : FaultKinds, stats_ok : BOOLEAN]
OneFault == { [kind |-> "Exception", stats_ok |-> TRUE] }

\* Every except block logging at severity 5; at severity 6.
ExceptSeverityError(kind) == 5
ExceptSeverityCritical(kind) == 6

\* severity=6 in except MemoryError and except OSError, severity=5 in except Exception
ExceptSeverity(kind) == IF kind = "Exception" THEN 5 ELSE 6

\* What an except block reports: send_log(..., severity=..., iteration=iteration,
\* ...) with, in except MemoryError, chunks_before_oom=len(allocated_memory);
\* or, when that raises, the print of the inner except.  The iteration
\* reported is the local of the loop.
ExceptNote(f, chunks) ==
    IF f.stats_ok
    THEN [via |-> "send_log", severity |-> ExceptSeverity(f.kind),
          chunks_before_oom |-> IF f.kind = "MemoryError" THEN chunks ELSE 0]
    ELSE [via |-> "print", severity |-> 0, chunks_before_oom |-> 0]

\* The loop at its completion log, after the except block for fault f
\* raised at the call named.
Excepted(lp, f, at, chunks) ==
    [Ended(lp) EXCEPT !.fault = f.kind, !.raised_at = at,
                      !.note = ExceptNote(f, chunks)]

\* check_memory_thresholds() of the tick raises: the except block logs,
\* sets memory_test_running = False and breaks.
LoopFault(l, f) ==
    /\ loops[l].pc = "check"
    /\ memory_test_running' = FALSE
    /\ loops' = [loops EXCEPT ![l] =
                   Excepted(@, f, "check_memory_thresholds", allocated_memory)]
    /\ UNCHANGED <<allocated_memory, flagVars, handler, notifier, hist, envVars>>

\* time.sleep(10) of the 60 block returns.
LoopWake60(l) ==
    /\ loops[l].pc = "sleep60"
    /\ loops' = [loops EXCEPT ![l] = After60(@)]
    /\ UNCHANGED <<memory_test_running, allocated_memory, flagVars, handler, notifier, hist, envVars>>

\* time.sleep(10) of the 80 block returns.
LoopWake80(l) ==
    /\ loops[l].pc = "sleep80"
    /\ loops' = [loops EXCEPT ![l].pc = "alloc"]
    /\ UNCHANGED <<memory_test_running, allocated_memory, flagVars, handler, notifier, hist, envVars>>

\* The gate with the test of the iteration number left out.
ShouldLogAbove80Only(iteration, q, last) == q >= 80000 \/ iteration - last >= 5

\* should_log = (iteration % 3 == 0) or (container_memory_percent_after >= 80)
\*              or (iteration - last_log_iteration >= 5)
ShouldLog(iteration, q, last) ==
    iteration % 3 = 0 \/ q >= 80000 \/ iteration - last >= 5

\* severity = 3, 6 at >= 95, 5 at >= 90, 4 at >= 80
ProgressSeverity(q) ==
    IF q >= 95000 THEN 6 ELSE IF q >= 90000 THEN 5 ELSE IF q >= 80000 THEN 4 ELSE 3

\* A sleep of 2 seconds whatever the percentage.
WaitTimeTwo(q) == 20

\* wait_time = 0.5 if container_memory_percent_after >= 90
\*             else 1 if container_memory_percent_after >= 80 else 2,
\* in tenths of a second.
WaitTime(q) == IF q >= 90000 THEN 5 ELSE IF q >= 80000 THEN 10 ELSE 20

\* chunk = bytearray(chunk_size); allocated_memory.append(chunk), the
\* statistics after it (q is the percentage they give), the progress log
\* and time.sleep(wait_time).  blocks is what the process can hold.
LoopAlloc(l, q, blocks) ==
    /\ loops[l].pc = "alloc"
    /\ allocated_memory < blocks
    /\ allocated_memory' = allocated_memory + 1
    /\ LET i == loops[l].iteration
           log == ShouldLog(i, q, loops[l].last_log_iteration)
       IN  loops' = [loops EXCEPT ![l] =
                       [@ EXCEPT !.pc = "while", !.pct = 0, !.pct_after = q,
                                 !.wait_time = WaitTime(q),
                                 !.progress = IF log THEN ProgressSeverity(q) ELSE 0,
                                 !.last_log_iteration = IF log THEN i ELSE @]]
    /\ hist' = [hist EXCEPT !.bytes = @ + loops[l].chunk_size]
    /\ UNCHANGED <<memory_test_running, flagVars, handler, notifier, envVars>>

\* An allocation failure that leaves the block it asked for in the ledger.
LoopAllocFailsAppending(l, blocks, stats_ok) ==
    /\ loops[l].pc = "alloc"
    /\ allocated_memory >= blocks
    /\ allocated_memory' = allocated_memory + 1
    /\ memory_test_running' = FALSE
    /\ loops' = [loops EXCEPT ![l] =
                   Excepted(@, [kind |-> "MemoryError", stats_ok |-> stats_ok],
                            "bytearray", allocated_memory)]
    /\ UNCHANGED <<flagVars, handler, notifier, hist, envVars>>

\* bytearray(chunk_size) raises MemoryError when the process holds all the
\* memory it can get: nothing is appended, except MemoryError logs, sets
\* memory_test_running = False and breaks.
LoopAllocFails(l, blocks, stats_ok) ==
    /\ loops[l].pc = "alloc"
    /\ allocated_memory >= blocks
    /\ memory_test_running' = FALSE
    /\ loops' = [loops EXCEPT ![l] =
                   Excepted(@, [kind |-> "MemoryError", stats_ok |-> stats_ok],
                            "bytearray", allocated_memory)]
    /\ UNCHANGED <<allocated_memory, flagVars, handler, notifier, hist, envVars>>

\* The block is appended and get_memory_stats() after it raises.
LoopAllocFault(l, f, blocks) ==
    /\ loops[l].pc = "alloc"
    /\ allocated_memory < blocks
    /\ allocated_memory' = allocated_memory + 1
    /\ memory_test_running' = FALSE
    /\ loops' = [loops EXCEPT ![l] =
                   Excepted(@, f, "get_memory_stats", allocated_memory + 1)]
    /\ hist' = [hist EXCEPT !.bytes = @ + loops[l].chunk_size]
    /\ UNCHANGED <<flagVars, handler, notifier, envVars>>

\* reason="OOM" if not memory_test_running else "Stopped"
CompletionReason(running) == IF ~running THEN "OOM" ELSE "Stopped"

\* The completion log; the thread ends.
LoopFinal(l) ==
    /\ loops[l].pc = "final"
    /\ loops' = [loops EXCEPT ![l] = NoLoop]
    /\ UNCHANGED <<memory_test_running, allocated_memory, flagVars, handler, notifier, hist, envVars>>

StartStep(h) ==
    \/ StartSet(h)
    \/ StartSpawn(h)

StopStep(h) ==
    \/ StopSet(h)
    \/ StopLen(h)
    \/ StopClear(h)

\* One step of loop l.  readings are the percentages a tick can read, after
\* those the statistics after an allocation can give, faults the faults
\* that can occur, iters the iterations a run begins and blocks the blocks
\* the process can hold.
LoopRun(l, readings, after, faults, iters, blocks) ==
    \/ LoopWhile(l, iters)
    \/ \E p \in readings : LoopCheck(l, p)
    \/ \E f \in faults : LoopFault(l, f)
    \/ LoopWake60(l)
    \/ LoopWake80(l)
    \/ \E q \in after : LoopAlloc(l, q, blocks)
    \/ \E f \in faults : LoopAllocFails(l, blocks, f.stats_ok)
    \/ \E f \in faults : LoopAllocFault(l, f, blocks)
    \/ LoopFinal(l)

LoopStep(l, readings) == LoopRun(l, readings, readings, OneFault, MaxIter, MaxLedger)

\* Requests sent one after another: only the loops run beside a handler.
\* The process is already above both pause lines.
Next ==
    \/ \E h \in Handlers, op \in StartOps : StartCheck(h, op, TRUE)
    \/ \E h \in Handlers : StopCheck(h, TRUE)
    \/ \E h \in Handlers : StartStep(h) \/ StopStep(h)
    \/ \E l \in LoopIds : LoopStep(l, HighReadings)

Spec == Init /\ [][Next]_vars

\* Requests handled concurrently (the server is threaded).
NextThreaded ==
    \/ \E h \in Handlers, op \in StartOps : StartCheck(h, op, FALSE)
    \/ \E h \in Handlers : StopCheck(h, FALSE)
    \/ \E h \in Handlers : StartStep(h) \/ StopStep(h)
    \/ \E l \in LoopIds : LoopStep(l, HighReadings)

SpecThreaded == Init /\ [][NextThreaded]_vars

\* Runs that end by themselves (no stop request), over every band of readings.
NextTicks ==
    \/ \E h \in Handlers, op \in StartOps : StartCheck(h, op, TRUE)
    \/ \E h \in Handlers : StartStep(h)
    \/ \E l \in LoopIds : LoopStep(l, LoopReadings)

SpecTicks == Init /\ [][NextTicks]_vars

\* Every request of the control surface, one after another, beside the
\* loops.  The runs begin one iteration fewer than in Spec and the process
\* holds one block fewer; it is above both pause lines, and the huge
\* allocation of an immediate crash ends in MemoryError.
NextSurface ==
    \/ \E h \in Handlers : StartCheck(h, "start", TRUE)
    \/ \E h \in Handlers : StopCheck(h, TRUE)
    \/ \E h \in Handlers : StartStep(h) \/ StopStep(h)
    \/ \E h \in Handlers, op \in StatusOps, p \in HighReadings : Status(h, op, TRUE, p)
    \/ \E h \in Handlers, op \in StatusOps : StatusFault(h, op, TRUE)
    \/ \E h \in Handlers, op \in CrashOps : Crash(h, op, TRUE, "MemoryError", TRUE)
    \/ \E l \in LoopIds :
          LoopRun(l, HighReadings, HighReadings, OneFault, MaxIter - 1, MaxLedger - 1)

SpecSurface == Init /\ [][NextSurface]_vars

\* A process whose resident memory is the ledger: every reading is the size
\* of the ledger over the limit.  The limit is 1000 MB from the v2 file,
\* 512 MB from CE_MEMORY, or the default.  The statistics calls raise only
\* in a process within one block of what it can hold.
GrowthSources ==
    { [NoSources EXCEPT !.v2 = Number(1000)],
      [NoSources EXCEPT !.env = Number(512)],
      NoSources }

InitGrowth ==
    /\ InitGlobals
    /\ limit_source \in GrowthSources
    /\ resolved = NotResolved
    /\ telemetry = NoSink

NextGrowth ==
    \/ \E h \in Handlers : StartCheck(h, "start", TRUE)
    \/ \E h \in Handlers : StartStep(h)
    \/ \E l \in LoopIds :
          LET limit_mb == get_container_memory_limit(limit_source).mb
          IN  LoopRun(l, { UsedPct(hist.bytes, limit_mb) },
                         { UsedPct(hist.bytes + loops[l].chunk_size, limit_mb) },
                      IF allocated_memory >= MaxGrowth - 1 THEN OneFault ELSE {},
                      MaxGrowth + 1, MaxGrowth)

SpecGrowth == InitGrowth /\ [][NextGrowth]_vars

\* The loop followed tick by tick over longer runs that end by themselves:
\* the pause blocks over every band of readings.
NextPauses ==
    \/ \E h \in Handlers, op \in StartOps : StartCheck(h, op, TRUE)
    \/ \E h \in Handlers : StartStep(h)
    \/ \E l \in LoopIds :
          LoopRun(l, LoopReadings, HighReadings, OneFault, MaxRunIter, MaxRunIter - 1)

SpecPauses == Init /\ [][NextPauses]_vars

\* The same runs in a process already above both pause lines: the
\* statistics after each allocation over every band of the progress log.
NextProgress ==
    \/ \E h \in Handlers, op \in StartOps : StartCheck(h, op, TRUE)
    \/ \E h \in Handlers : StartStep(h)
    \/ \E l \in LoopIds :
          LoopRun(l, HighReadings, AfterReadings, OneFault, MaxRunIter, MaxRunIter - 1)

SpecProgress == Init /\ [][NextProgress]_vars

\* Short runs with every fault, reported or not: a run begins one iteration
\* more than the process can hold blocks.
NextFaults ==
    \/ \E h \in Handlers, op \in StartOps : StartCheck(h, op, TRUE)
    \/ \E h \in Handlers : StartStep(h)
    \/ \E l \in LoopIds :
          LoopRun(l, HighReadings, HighReadings, Faults, MaxLedger + 1, MaxLedger)

SpecFaults == Init /\ [][NextFaults]_vars

\* The immediate crash beside start() and the loops, with every outcome of
\* the huge allocation.
NextCrash ==
    \/ \E h \in Handlers : StartCheck(h, "start", TRUE)
    \/ \E h \in Handlers : StartStep(h)
    \/ \E h \in Handlers, op \in CrashOps, o \in CrashOutcomes, ok \in BOOLEAN :
          Crash(h, op, TRUE, o, ok)
    \/ \E l \in LoopIds :
          LoopRun(l, HighReadings, HighReadings, OneFault, MaxIter - 1, MaxLedger - 1)

SpecCrash == Init /\ [][NextCrash]_vars

\* Status requests on the server threads, statement by statement, beside a
\* loop: the requests read a process above the 60 and 80 lines or one
\* below every floor, the loop one above both lines.
StatusReadings == { 50000, 85000 }

NextEvals ==
    \/ \E h \in Handlers : StartCheck(h, "start", TRUE)
    \/ \E h \in Handlers : StartStep(h)
    \/ \E h \in Handlers, p \in StatusReadings : StatusRead(h, "home", p)
    \/ \E h \in Handlers : StatusStep(h)
    \/ \E l \in LoopIds :
          LoopRun(l, HighReadings, HighReadings, OneFault, MaxIter - 1, MaxLedger - 1)

SpecEvals == Init /\ [][NextEvals]_vars

\* Runs to their end: no stop request, every fault, and a process that
\* holds MaxLedger blocks, so that the allocation after those fails.  The
\* scheduler runs every thread that can take a step: each loop, and each
\* handler that has taken a request.
NextTerm ==
    \/ \E h \in Handlers : StartCheck(h, "start", TRUE)
    \/ \E h \in Handlers : StartStep(h)
    \/ \E h \in Handlers : StartSpawnDies(h)
    \/ \E l \in LoopIds :
          LoopRun(l, HighReadings, HighReadings, Faults, MaxLedger + 1, MaxLedger)

FairTerm ==
    /\ \A l \in LoopIds :
          WF_vars(LoopRun(l, HighReadings, HighReadings, Faults, MaxLedger + 1, MaxLedger))
    /\ \A h \in Handlers : WF_vars(StartStep(h) \/ StartSpawnDies(h))

SpecTerm == Init /\ [][NextTerm]_vars /\ FairTerm

-----------------------------------------------------------------------------
(* Properties of the control surface.                                      *)

LiveLoops == { l \in LoopIds : Live(l) }

\* Server thread h took a request of kind start (resp. stop) and tested the flag.
TookStartCheck(h) ==
    handler[h].pc = "idle" /\ handler'[h] # handler[h] /\ handler'[h].op \in StartOps
TookStopCheck(h) ==
    handler[h].pc = "idle" /\ handler'[h] # handler[h] /\ handler'[h].op = "stop"

C2_OneLoopPerStart == hist.spawnsSinceSet <= 1

\* C3: at most one loop is able to append to the ledger.
C3_AtMostOneLoop == Cardinality({ l \in LoopIds : Appending(l) }) <= 1

\* C4: a stop() that finds the flag unset answers 400 and changes neither
\* the flag, the ledger, the threshold flags nor the loops.
C4_StopWhenNotRunning ==
    [][\A h \in Handlers :
         (TookStopCheck(h) /\ ~memory_test_running) =>
             /\ handler'[h].pc = "idle"
             /\ handler'[h].status = 400
             /\ UNCHANGED <<memory_test_running, allocated_memory, flagVars, loops>>
      ]_vars

\* A stop was refused after the loop ended itself with blocks in the ledger.
C4_Witness ==
    \E h \in Handlers :
        /\ handler[h].op = "stop"
        /\ handler[h].pc = "idle"
        /\ handler[h].status = 400
        /\ ~memory_test_running
        /\ allocated_memory > 0
        /\ LiveLoops = {}

\* C5: the stop() that clears the ledger reports the number of blocks the
\* clear removes, leaves the ledger empty and the flag unset.
C5_ExactCount ==
    [][\A h \in Handlers :
         (handler[h].pc = "t_clear" /\ handler'[h].pc = "idle") =>
             /\ handler[h].chunks_freed = allocated_memory
             /\ allocated_memory' = 0
             /\ ~memory_test_running'
      ]_vars

\* C6: from the clear of a stop() to the next start() that sets the flag,
\* the ledger is empty.
C6_EmptyAfterStop == hist.stopCleared => allocated_memory = 0

\* C7: a loop that was running when a stop() unset the flag begins no new
\* iteration.
C7_NoNewIteration ==
    [][\A l \in LoopIds :
         loops[l].stopped => loops'[l].iteration <= loops[l].iteration
      ]_vars

-----------------------------------------------------------------------------
(* Properties of the threshold notifier.                                   *)

\* The levels the worked example emits at each of its readings.
ExampleLevels == << {}, {60}, {80}, {90}, {}, {} >>

\* C8: an event for level L is emitted only if no event for L was emitted
\* since the last reading below L's floor (55, 75, 85); and the readings
\* 50, 61, 82, 91, 70, 52 emit 60, 80 and 90 at the second, third and
\* fourth reading and leave the three flags unset.
C8_OneEventPerEpisode ==
    [][/\ \A L \in {60, 80, 90} :
             Emits(notifier'.events, L) => notifier.armed[L]
       /\ notifier'.onExample =>
             /\ Levels(notifier'.events) = ExampleLevels[notifier'.nread]
             /\ notifier'.nread = Len(Example) => Flags' = NoFlags
      ]_vars

\* The worked example has been evaluated to its last reading.
C8_Witness == notifier.onExample /\ notifier.nread = Len(Example)

\* The transition of one evaluation as the design states it.
RefFlag(f, L) == CASE L = 60 -> f.w60 [] L = 80 -> f.w80 [] L = 90 -> f.w90

RefEmits(f, p, L) == p >= L * 1000 /\ ~RefFlag(f, L)

RefResets(p) ==
    IF p < 55000 THEN {60, 80, 90}
    ELSE IF p < 75000 THEN {80, 90}
    ELSE IF p < 85000 THEN {90}
    ELSE {}

RefSet(f, p, L) == (RefFlag(f, L) \/ RefEmits(f, p, L)) /\ L \notin RefResets(p)

Reference(f, p) ==
    [flags  |-> [w60 |-> RefSet(f, p, 60), w80 |-> RefSet(f, p, 80),
                 w90 |-> RefSet(f, p, 90)],
     events |-> SelectSeq(<< [threshold |-> 60, severity |-> 3],
                             [threshold |-> 80, severity |-> 4],
                             [threshold |-> 90, severity |-> 5] >>,
                          LAMBDA e : RefEmits(f, p, e.threshold))]

\* C9: one evaluation emits, for 60, 80 and 90 in that order, an event of
\* severity info (3), warning (4), error (5) exactly when the reading is at
\* or above the level and its flag was unset, and then resets the flags by
\* the band of the reading: below 55 all, below 75 the 80 and 90 flags,
\* below 85 the 90 flag, else none.
C9_EvaluationMatchesReference ==
    notifier.nread > 0 =>
        [flags |-> Flags, events |-> notifier.events]
            = Reference(notifier.prev, notifier.reading)

\* An evaluation in the band 55..75 with all three flags set before it:
\* the 60 flag stays, the 80 and 90 flags are reset, nothing is emitted.
C9_Witness ==
    /\ notifier.nread > 0
    /\ notifier.prev = [w60 |-> TRUE, w80 |-> TRUE, w90 |-> TRUE]
    /\ notifier.reading >= 55000
    /\ notifier.reading < 75000
    /\ Flags = [w60 |-> TRUE, w80 |-> FALSE, w90 |-> FALSE]
    /\ notifier.events = << >>

-----------------------------------------------------------------------------
(* Properties of the pause blocks of the loop.                             *)

\* The loop evaluated a tick (it did not fault); the tick read 60% or more.
Ticked(l) == loops[l].pc = "check" /\ loops'[l].pc \notin {"check", "final"}
ReadAtLeast60(l) == loops'[l].ticks60 = loops[l].ticks60 + 1

\* C10: the loop enters the pause at 60 exactly on the first tick of its
\* run that reads 60% or more, and from nowhere but a tick.
C10_PauseAt60Once ==
    [][\A l \in LoopIds :
         /\ Ticked(l) =>
               (loops'[l].pc = "sleep60"
                   <=> (ReadAtLeast60(l) /\ loops[l].ticks60 = 0))
         /\ (loops'[l].pc = "sleep60" /\ loops[l].pc # "sleep60") => Ticked(l)
      ]_vars

\* A second tick of a run read 60% to 79% and went on to allocate.
C10_Witness ==
    \E l \in LoopIds :
        /\ loops[l].ticks60 >= 2
        /\ loops[l].pc = "alloc"
        /\ loops[l].paused_at_60
        /\ ~loops[l].paused_at_80

-----------------------------------------------------------------------------
(* Properties of telemetry.                                                *)

Delivered == { "200", "201", "204" }

\* C15: every send_log call writes its local log line before it asks for
\* a token or posts to the sink, and ends by returning True or False, never
\* by an exception: True exactly when the sink answered 200, 201 or 204,
\* False when no sink is configured, no token is to be had, the sink
\* answers another status or the request raises; and no step of the call
\* changes memory_test_running or a loop.
C15_TelemetryBestEffort ==
    [][/\ (telemetry.call.pc \in {"token", "post"} /\ telemetry'.call # telemetry.call) =>
             telemetry.call.logged = LocalLevel(telemetry.call.severity)
       /\ (telemetry.call.pc # "idle" /\ telemetry'.call.pc = "idle") =>
             /\ telemetry'.call.logged = LocalLevel(telemetry'.call.severity)
             /\ telemetry'.call.returned \in {"True", "False"}
             /\ telemetry'.call.returned = "True" <=> telemetry'.call.post \in Delivered
       /\ telemetry' # telemetry => UNCHANGED <<memory_test_running, loops>>
      ]_vars

\* A call of severity critical whose request to the sink raised: the line
\* is in the local log at level error and the call returned False.
C15_Witness ==
    /\ telemetry.call.pc = "idle"
    /\ telemetry.call.severity = 6
    /\ telemetry.call.logged = "error"
    /\ telemetry.call.post = "exception"
    /\ telemetry.call.returned = "False"

-----------------------------------------------------------------------------
(* Properties of the resolver.                                             *)

\* C17: get_container_memory_limit never raises: whatever the two files
\* and CE_MEMORY hold (nothing, text that does not parse, a file that cannot
\* be read) a call returns a limit, and with no file and no CE_MEMORY it
\* returns the default of 1024 MB.
C17_ResolveNeverRaises ==
    resolved.calls > 0 =>
        /\ ~resolved.result.raised
        /\ resolved.result.from \in {"v2", "v1", "env", "default"}
        /\ limit_source = NoSources =>
              /\ resolved.result.mb = 1024
              /\ resolved.result.from = "default"

\* A call that found a v2 file it could not read returned the default.
C17_Witness ==
    /\ resolved.calls > 0
    /\ limit_source.v2 = Unreadable
    /\ resolved.result.mb = 1024
    /\ ~resolved.result.raised

\* A source that states a limit.
Usable(c) == c.kind = "number"

\* The first source, in the order v2, v1, CE_MEMORY, that states a limit.
FirstUsable(src) ==
    IF Usable(src.v2) THEN [mb |-> src.v2.mb, from |-> "v2"]
    ELSE IF Usable(src.v1) THEN [mb |-> src.v1.mb, from |-> "v1"]
    ELSE IF Usable(src.env) THEN [mb |-> src.env.mb, from |-> "env"]
    ELSE [mb |-> DefaultLimitMb, from |-> "default"]

\* C18: a call returns the limit of the first source, in the order v2 file,
\* v1 file, CE_MEMORY, that states one, passing over a source that is
\* absent, states no limit ('max', 9223372036854771712 or more), cannot be
\* read or does not parse; and the default when none states a limit.
C18_FirstUsableSourceWins ==
    resolved.calls > 0 =>
        [mb |-> resolved.result.mb, from |-> resolved.result.from]
            = FirstUsable(limit_source)

-----------------------------------------------------------------------------
(* Properties of the loop followed tick by tick.                           *)

ReadAtLeast80(l) == loops'[l].pct >= 80000

\* C11: in one run, once a tick has read below 55% (below 75%) after the
\* pause at 60 (at 80), the next tick that reads 60% (80%) or more pauses
\* the loop again.
C11_LatchesFollowReset ==
    [][\A l \in LoopIds :
         Ticked(l) =>
            /\ (ReadAtLeast60(l) /\ loops[l].below55) => loops'[l].pc = "sleep60"
            /\ (ReadAtLeast80(l) /\ loops[l].below75) =>
                  loops'[l].pc \in {"sleep60", "sleep80"}
      ]_vars

\* bytearray(chunk_size) of loop l raised MemoryError.
AllocFailed(l) ==
    /\ loops[l].pc = "alloc"
    /\ loops'[l].pc = "final"
    /\ loops'[l].raised_at = "bytearray"

\* What an allocation failure does besides its report: nothing is appended,
\* the flag is unset, the loop is at its last line with the iteration
\* count it failed at, and from there it only ends.
AllocFailureEnds(l) ==
    /\ AllocFailed(l) =>
          /\ allocated_memory' = allocated_memory
          /\ ~memory_test_running'
          /\ loops'[l].iteration = loops[l].iteration
    /\ (loops[l].pc = "final" /\ loops'[l] # loops[l]) =>
          /\ allocated_memory' = allocated_memory
          /\ loops'[l].pc = "none"

\* The report of an allocation failure through send_log: critical, with
\* the size of the ledger.
CriticalReport(l) ==
    /\ loops'[l].note.via = "send_log"
    /\ loops'[l].note.severity = 6
    /\ loops'[l].note.chunks_before_oom = allocated_memory

\* C12 as stated: an allocation that fails at iteration K always emits one
\* critical notification with the iteration count and the ledger size,
\* unsets the flag and ends the loop, which appends nothing more, the
\* failed block included.
C12_AllocFailureAlwaysNotifies ==
    [][\A l \in LoopIds :
         /\ AllocFailureEnds(l)
         /\ AllocFailed(l) => CriticalReport(l)
      ]_vars

\* C12: an allocation that fails at iteration K emits one critical
\* notification with the iteration count and the ledger size, or, when
\* gathering the statistics for it or sending it raises, a printed line
\* with the iteration count only; either way it unsets the flag and ends
\* the loop, which appends nothing more, the failed block included.
C12_AllocFailure ==
    [][\A l \in LoopIds :
         /\ AllocFailureEnds(l)
         /\ AllocFailed(l) =>
               \/ CriticalReport(l)
               \/ loops'[l].note = [via |-> "print", severity |-> 0,
                                    chunks_before_oom |-> 0]
      ]_vars

\* The third allocation of a run failed and was reported as critical with
\* the two blocks of the ledger.
C12_Witness ==
    \E l \in LoopIds :
        /\ loops[l].pc = "final"
        /\ loops[l].raised_at = "bytearray"
        /\ loops[l].iteration = 3
        /\ loops[l].note = [via |-> "send_log", severity |-> 6, chunks_before_oom |-> 2]
        /\ allocated_memory = 2
        /\ ~memory_test_running

\* A tick of loop l ended in an except block, and not because
\* bytearray(chunk_size) raised MemoryError.
OtherFault(l) ==
    /\ loops[l].pc \in {"check", "alloc"}
    /\ loops'[l].pc = "final"
    /\ loops'[l].fault # "none"
    /\ ~AllocFailed(l)

\* What such a fault does besides its report: the flag is unset, the loop
\* is at its last line, and no request handler sees the exception.
FaultEnds(l) ==
    OtherFault(l) =>
        /\ ~memory_test_running'
        /\ handler' = handler

\* C14 as stated: every fault of a tick other than an allocation failure
\* is reported at severity error, unsets the flag and ends the loop, and
\* reaches no request handler.
C14_FaultAlwaysError ==
    [][\A l \in LoopIds :
         /\ FaultEnds(l)
         /\ OtherFault(l) =>
               /\ loops'[l].note.via = "send_log"
               /\ loops'[l].note.severity = 5
      ]_vars

\* C14: a fault of a tick other than an allocation failure is reported at
\* severity critical when it is an OSError or a MemoryError, and at
\* severity error when it is any other exception, unless gathering the
\* statistics for the report or sending it raises, and then by a printed
\* line; either way it unsets the flag and ends the loop, and reaches no
\* request handler.
C14_Fault ==
    [][\A l \in LoopIds :
         /\ FaultEnds(l)
         /\ OtherFault(l) =>
               \/ /\ loops'[l].note.via = "send_log"
                  /\ loops'[l].note.severity =
                        IF loops'[l].fault = "Exception" THEN 5 ELSE 6
               \/ loops'[l].note.via = "print"
      ]_vars

\* check_memory_thresholds raised an exception that is neither MemoryError
\* nor OSError in the second iteration; it was reported at severity error.
C14_Witness ==
    \E l \in LoopIds :
        /\ loops[l].pc = "final"
        /\ loops[l].fault = "Exception"
        /\ loops[l].raised_at = "check_memory_thresholds"
        /\ loops[l].iteration = 2
        /\ loops[l].note.via = "send_log"
        /\ loops[l].note.severity = 5
        /\ allocated_memory = 1
        /\ ~memory_test_running

\* Loop l allocated a block and went on to the next test of the flag.
Allocated(l) == loops[l].pc = "alloc" /\ loops'[l].pc = "while"

\* C16: after the allocation of iteration i a progress notification is
\* emitted exactly when i is a multiple of 3, or the percentage after the
\* allocation is 80 or more, or more than 5 iterations have passed since
\* the last one; its severity is critical (6) at 95 or more, error (5) at
\* 90 or more, warning (4) at 80 or more, else info (3); and
\* last_log_iteration becomes i when one is emitted and is unchanged when
\* none is.
C16_ProgressGate ==
    [][\A l \in LoopIds :
         Allocated(l) =>
            LET i    == loops[l].iteration
                q    == loops'[l].pct_after
                last == loops[l].last_log_iteration
                due  == i % 3 = 0 \/ q >= 80000 \/ i - last > 5
            IN  /\ loops'[l].progress # 0 <=> due
                /\ due => loops'[l].progress =
                             IF q >= 95000 THEN 6
                             ELSE IF q >= 90000 THEN 5
                             ELSE IF q >= 80000 THEN 4 ELSE 3
                /\ loops'[l].last_log_iteration = IF due THEN i ELSE last
      ]_vars

\* The third allocation of a run left the process below 80%: a progress
\* notification of severity info was emitted, the first of the run.
C16_Witness ==
    \E l \in LoopIds :
        /\ loops[l].pc = "while"
        /\ loops[l].iteration = 3
        /\ loops[l].pct_after < 80000
        /\ loops[l].progress = 3
        /\ loops[l].last_log_iteration = 3
        /\ allocated_memory = 3

-----------------------------------------------------------------------------
(* Properties of the ledger and of the flags over the whole surface.       *)

\* Server thread h answered a request of one of the kinds ops.
Answered(h, ops) ==
    /\ handler'[h] # handler[h]
    /\ handler'[h].pc = "idle"
    /\ handler'[h].op \in ops

\* C13: the ledger changes only when a stop() that found the flag set
\* clears it, and when a loop appends a block, by exactly one block: an
\* iteration that ends without a fault appends one block, and the end of a
\* loop by an allocation failure, by a fault of its tick or by the flag, a
\* refused start() or stop(), a status request and an immediate crash
\* leave its length as it is.  (A loop that appends its block and faults
\* before the end of the iteration appends in that step.)
C13_LedgerFrame ==
    [][/\ allocated_memory' # allocated_memory =>
             \/ /\ allocated_memory' = 0
                /\ \E h \in Handlers :
                      /\ handler[h].pc = "t_clear"
                      /\ Answered(h, {"stop"})
                      /\ handler'[h].status = 200
             \/ /\ allocated_memory' = allocated_memory + 1
                /\ \E l \in LoopIds : loops[l].pc = "alloc" /\ loops'[l] # loops[l]
       /\ \A l \in LoopIds :
             /\ Allocated(l) => allocated_memory' = allocated_memory + 1
             /\ AllocFailed(l) => allocated_memory' = allocated_memory
             /\ (loops[l].pc \in {"check", "while", "final"} /\ loops'[l] # loops[l]) =>
                   allocated_memory' = allocated_memory
       /\ \A h \in Handlers :
             /\ (Answered(h, StartOps \cup {"stop"}) /\ handler'[h].status = 400) =>
                   allocated_memory' = allocated_memory
             /\ Answered(h, StatusOps \cup CrashOps) =>
                   allocated_memory' = allocated_memory
      ]_vars

\* A run ended by an allocation failure; a /trigger-oom after it was
\* answered and the block of the run is still in the ledger.
C13_Witness ==
    \E h \in Handlers :
        /\ handler[h].op = "trigger_oom"
        /\ handler[h].pc = "idle"
        /\ handler[h].crash = "MemoryError"
        /\ ~memory_test_running
        /\ LiveLoops = {}
        /\ allocated_memory > 0
        /\ hist.bytes = allocated_memory * ChunkSize(DefaultLimitMb)

\* C20: a request to / or /memory-stats leaves the three threshold flags as
\* they are and emits no crossing event.
C20_StatusOnlyReads ==
    [][\A h \in Handlers :
         Answered(h, StatusOps) =>
             /\ UNCHANGED flagVars
             /\ handler'[h].emitted = {}
      ]_vars

-----------------------------------------------------------------------------
(* Properties of the chunk size.                                           *)

\* The limit the sources give.
LimitMb == get_container_memory_limit(limit_source).mb

\* x is y to within 0.01 of a percent.
Near(x, y) == x - y <= 10 /\ y - x <= 10

\* C19: a loop computes its chunk size when it starts, as the integer part
\* of 2% of the limit in bytes, keeps it to its end and appends blocks of
\* that size; and under a limit of 1000 MB the chunk is 20 MB and, the
\* resident memory being the ledger, the percentage read after the N-th
\* block is appended, and by the tick after it, is 2 * N.
C19_ChunkSize ==
    [][\A l \in LoopIds :
         /\ (loops[l].pc = "none" /\ loops'[l].pc # "none") =>
               /\ loops'[l].chunk_size * 50 <= LimitMb * 1048576
               /\ LimitMb * 1048576 < (loops'[l].chunk_size + 1) * 50
         /\ (loops[l].pc # "none" /\ loops'[l].pc # "none") =>
               loops'[l].chunk_size = loops[l].chunk_size
         /\ (loops[l].pc = "alloc" /\ allocated_memory' # allocated_memory) =>
               hist'.bytes = hist.bytes + loops[l].chunk_size
         /\ LimitMb = 1000 =>
               /\ loops[l].pc # "none" => loops[l].chunk_size = 20 * 1048576
               /\ Allocated(l) => Near(loops'[l].pct_after, 2000 * allocated_memory')
               /\ Ticked(l) => Near(loops'[l].pct, 2000 * allocated_memory)
      ]_vars

\* Under a limit of 1000 MB the thirtieth block has been appended and the
\* statistics give 60%.
C19_Witness ==
    \E l \in LoopIds :
        /\ LimitMb = 1000
        /\ loops[l].pc = "while"
        /\ loops[l].chunk_size = 20971520
        /\ allocated_memory = 30
        /\ loops[l].pct_after = 60000

-----------------------------------------------------------------------------
(* Properties of the immediate crash.                                      *)

\* C21: a request for an immediate crash (/crash with a type other than
\* gradual, /trigger-oom) is answered 200 whether or not a test is running,
\* and, however its huge allocation ends, leaves the run flag, the ledger,
\* the three threshold flags and the loops as they are; when the allocation
\* succeeds a warning (severity 4) is sent.
C21_CrashFrame ==
    [][\A h \in Handlers :
         Answered(h, CrashOps) =>
             /\ handler'[h].status = 200
             /\ handler'[h].crash \in CrashOutcomes
             /\ UNCHANGED <<memory_test_running, allocated_memory, flagVars, loops>>
             /\ handler'[h].crash = "allocated" =>
                   /\ handler'[h].note.via = "send_log"
                   /\ handler'[h].note.severity = 4
      ]_vars

\* An immediate crash asked for while a test is running with a block in the
\* ledger: its allocation succeeded and the warning was sent.
C21_Witness ==
    \E h \in Handlers :
        /\ handler[h].op = "crash_oom"
        /\ handler[h].pc = "idle"
        /\ handler[h].status = 200
        /\ handler[h].crash = "allocated"
        /\ handler[h].note.severity = 4
        /\ memory_test_running
        /\ allocated_memory > 0
        /\ \E l \in LoopIds : loops[l].pc = "while"

-----------------------------------------------------------------------------
(* Properties of the order of the steps of a tick.                         *)

\* Loop l took a step.
Stepped(l) == loops'[l] # loops[l]

\* C22: in a tick the threshold evaluation comes first, then the pause at
\* 60, then the pause at 80, then the allocation.  So a tick that pauses at
\* level L has the flag of L set when its evaluation is done (the crossing
\* event of L came no later than the evaluation of this tick); a loop in a
\* pause appends nothing and a block is appended only by a loop past both
\* pause blocks; after the pause at 60 comes the pause at 80, if it is due,
\* and then the allocation; and a tick that reads 80 or more with both
\* latches unset pauses at 60 first, both latches being set when it
\* reaches the allocation.
C22_TickOrder ==
    [][\A l \in LoopIds :
         /\ Ticked(l) =>
               LET p == loops'[l].pct
                   due60 == PauseAt60(loops[l], p)
                   due80 == PauseAt80(loops[l], p)
               IN  /\ due60 => /\ loops'[l].pc = "sleep60"
                               /\ memory_warning_60_sent'
                   /\ due80 => /\ loops'[l].pc \in {"sleep60", "sleep80"}
                               /\ memory_warning_80_sent'
                   /\ (~due60 /\ due80) => loops'[l].pc = "sleep80"
                   /\ (~due60 /\ ~due80) => loops'[l].pc = "alloc"
                   /\ allocated_memory' = allocated_memory
         /\ (loops[l].pc = "sleep60" /\ Stepped(l)) =>
               /\ loops'[l].pc = IF PauseAt80(loops[l], loops[l].pct)
                                 THEN "sleep80" ELSE "alloc"
               /\ allocated_memory' = allocated_memory
         /\ (loops[l].pc = "sleep80" /\ Stepped(l)) =>
               /\ loops'[l].pc = "alloc"
               /\ allocated_memory' = allocated_memory
         /\ (loops'[l].pc = "alloc" /\ Stepped(l)) =>
               /\ loops'[l].pct >= 60000 => loops'[l].paused_at_60
               /\ loops'[l].pct >= 80000 => loops'[l].paused_at_80
         /\ Allocated(l) => allocated_memory' = allocated_memory + 1
      ]_vars

-----------------------------------------------------------------------------
(* Termination of a run.                                                   *)

\* C23: under fair scheduling, in a process of finite capacity, whenever
\* the run flag is set it is eventually unset, every loop that was started
\* eventually ends, and a loop ends only by its completion log, which it
\* reaches from the while test or from an except block.
C23_RunTerminates ==
    /\ memory_test_running ~> ~memory_test_running
    /\ \A l \in LoopIds : Live(l) ~> ~Live(l)
    /\ [][\A l \in LoopIds :
            /\ (Live(l) /\ ~Live(l)') => loops[l].pc = "final"
            /\ (loops[l].pc # "final" /\ loops'[l].pc = "final") =>
                  ~memory_test_running'
         ]_vars

-----------------------------------------------------------------------------
(* Threshold evaluations on several threads.                               *)

\* C24: an evaluation that emits the event of level L does so with the flag
\* of L unset: between its test of the flag and its assignment no other
\* evaluation has set the flag, so that no second event of L is emitted in
\* the same crossing episode.
C24_TestAndSetNotSplit ==
    [][\A h \in Handlers, L \in Thresholds :
         (handler[h].pc = SetPc(L) /\ handler'[h].pc # SetPc(L)) => ~Sent(L)
      ]_vars

-----------------------------------------------------------------------------
(* Properties of the sleep between iterations.                             *)

\* C25: after the allocation the loop sleeps 0.5 s when the percentage after
\* the allocation is 90 or more, 1 s when it is 80 or more and 2 s
\* otherwise: never more than 2 s, and no longer at a higher percentage
\* than at a lower one; after the sleep it is at the test of the run flag.
C25_SleepDuration ==
    [][\A l \in LoopIds :
         Allocated(l) =>
            LET q == loops'[l].pct_after
                w == loops'[l].wait_time
            IN  /\ q >= 90000 => w = 5
                /\ (q >= 80000 /\ q < 90000) => w = 10
                /\ q < 80000 => w = 20
                /\ w <= 20
                /\ \A r \in AfterReadings : r >= q => WaitTime(r) <= w
                /\ loops'[l].pc = "while"
      ]_vars

\* A loop slept 0.5 s after an allocation that took the process to 90%.
C25_Witness ==
    \E l \in LoopIds :
        /\ loops[l].pc = "while"
        /\ loops[l].iteration > 0
        /\ loops[l].pct_after = 90000
        /\ loops[l].wait_time = 5

-----------------------------------------------------------------------------
(* Properties of the flags after an evaluation.                            *)

\* C26: after every evaluation of a sequence that began with the three
\* flags unset, the 90 flag is set only if the 80 flag is, and the 80 flag
\* only if the 60 flag is.
C26_FlagsNested ==
    /\ memory_warning_90_sent => memory_warning_80_sent
    /\ memory_warning_80_sent => memory_warning_60_sent

\* A reading between 75 and 85, after one of 90 or more, left the 60 and
\* 80 flags set and the 90 flag unset.
C26_Witness ==
    /\ notifier.nread >= 2
    /\ notifier.prev = [w60 |-> TRUE, w80 |-> TRUE, w90 |-> TRUE]
    /\ notifier.reading >= 75000
    /\ notifier.reading < 85000
    /\ memory_warning_60_sent
    /\ memory_warning_80_sent
    /\ ~memory_warning_90_sent

-----------------------------------------------------------------------------
(* The ledger a run leaves when it ends by itself.                         *)

\* Loop l left its iteration by an except block.
SelfTerminated(l) ==
    /\ loops[l].pc \in {"check", "alloc"}
    /\ loops'[l].pc = "final"
    /\ loops'[l].fault # "none"

\* C27: a loop that ends by an allocation failure or a fault leaves the
\* run flag unset and the ledger as it is, without the block that failed;
\* a stop() that finds the flag unset answers 400 and frees nothing,
\* whatever the ledger holds; a start() that finds it unset goes on,
\* whatever the ledger holds, and neither its setting of the flag nor its
\* starting of the loop changes the ledger; and the blocks of the new run
\* are appended to what the ledger held.
C27_LedgerSurvivesSelfTermination ==
    [][/\ \A l \in LoopIds :
             /\ SelfTerminated(l) =>
                   /\ ~memory_test_running'
                   /\ allocated_memory' >= allocated_memory
                   /\ loops'[l].raised_at = "bytearray" =>
                         allocated_memory' = allocated_memory
             /\ Allocated(l) => allocated_memory' = allocated_memory + 1
       /\ \A h \in Handlers :
             /\ (TookStopCheck(h) /\ ~memory_test_running) =>
                   /\ handler'[h].pc = "idle"
                   /\ handler'[h].status = 400
                   /\ handler'[h].chunks_freed = 0
                   /\ allocated_memory' = allocated_memory
             /\ (TookStartCheck(h) /\ ~memory_test_running) =>
                   /\ handler'[h].pc = "s_set"
                   /\ allocated_memory' = allocated_memory
             /\ (handler[h].pc \in {"s_set", "s_spawn"} /\ handler'[h] # handler[h]) =>
                   allocated_memory' = allocated_memory
      ]_vars

\* A loop ended by a fault in its second iteration and has not yet written
\* its completion log; a start() after that set the flag again, and the
\* loop it started has appended its first block to the one the ledger held.
C27_Witness ==
    \E k, l \in LoopIds :
        /\ loops[k].pc = "final"
        /\ loops[k].fault # "none"
        /\ loops[k].iteration = 2
        /\ loops[l].pc = "while"
        /\ loops[l].iteration = 1
        /\ memory_test_running
        /\ allocated_memory = 2

-----------------------------------------------------------------------------
(* The pause latches of a run and the flags of the process.                *)

\* C28: no step of a start() or of a stop() changes a threshold flag; a
\* loop begins with both pause latches unset; and the first tick of a run
\* that finds the 60 flag set and reads 60% or more enters the pause at 60
\* while its evaluation, whatever it reads, emits no event for 60 and
\* leaves the flag set.
C28_LatchesPerRun ==
    [][/\ \A h \in Handlers :
             (handler'[h] # handler[h] /\ handler'[h].op \in StartOps \cup {"stop"}) =>
                 UNCHANGED flagVars
       /\ \A l \in LoopIds :
             /\ (loops[l].pc = "none" /\ loops'[l].pc # "none") =>
                   /\ ~loops'[l].paused_at_60
                   /\ ~loops'[l].paused_at_80
             /\ (Ticked(l) /\ loops[l].iteration = 1 /\ memory_warning_60_sent
                     /\ loops'[l].pct >= 60000) =>
                   /\ loops'[l].pc = "sleep60"
                   /\ loops'[l].paused_at_60
                   /\ memory_warning_60_sent'
                   /\ \A p \in ThresholdReadings :
                         ~Emits(check_memory_thresholds(Flags, p).events, 60)
      ]_vars

\* The only loop is in the pause at 60 of its first tick, in a process
\* whose ledger holds a block of an earlier run: the evaluation of that run
\* had set the 60 flag, and no request is in progress.
C28_Witness ==
    \E l \in LoopIds :
        /\ LiveLoops = {l}
        /\ loops[l].pc = "sleep60"
        /\ loops[l].iteration = 1
        /\ memory_test_running
        /\ memory_warning_60_sent
        /\ allocated_memory >= 1
        /\ \A h \in Handlers : handler[h].pc = "idle"

-----------------------------------------------------------------------------
(* The reason the completion log reports.                                  *)

\* Loop l wrote its completion log.
Completed(l) == loops[l].pc = "final" /\ loops'[l].pc = "none"

\* C29: the completion log of a loop that left the while by the test of
\* the run flag, which a stop() had unset, reports the reason "Stopped";
\* that of a loop that left it by an except block, after an allocation
\* failure or a fault, reports "OOM".
C29_CompletionReason ==
    [][\A l \in LoopIds :
         Completed(l) =>
            CompletionReason(memory_test_running) =
               IF loops[l].fault = "none" THEN "Stopped" ELSE "OOM"
      ]_vars

-----------------------------------------------------------------------------
(* The limit as a divisor.                                                 *)

\* C30: whatever the limit sources hold, the limit a call returns is more
\* than 0, so that it can divide the resident memory in the percentage of
\* check_memory_thresholds and of the loop, and the chunk of 2% of it is
\* not of 0 bytes.
C30_LimitPositive ==
    resolved.calls > 0 =>
        /\ resolved.result.mb > 0
        /\ ChunkSize(resolved.result.mb) > 0

====
